---------------------------- MODULE Spec2Model ----------------------------
(***************************************************************************)
(* A model of the ingestion / retrieval core of the FinDoc query-retrieval *)
(* service: the chunker of app/ingestion.py and the Qdrant-backed vector   *)
(* store of app/vector_store.py.                                           *)
(*                                                                         *)
(* Strings are sequences of one-character strings, so that slicing,        *)
(* strip(), split() and lower() are computed character by character.       *)
(***************************************************************************)
EXTENDS Integers, Sequences, FiniteSets, TLC

VARIABLES
    txt,      \* chunker: the extracted text handed to chunk()
    docId,    \* chunker: the doc_id handed to chunk()
    out,      \* chunker: [done, clauses], the value chunk() returned
    index,    \* vector store: the points held by the Qdrant collection
    nextId,   \* vector store: number of point ids generated so far (uuid4)
    last,     \* vector store: the last call, its arguments and what it returned
    runs,     \* main.run: the requests being served, each at its position
    emb,      \* _generate_embeddings: the call in progress, request by request
    pol       \* PolicyAnalyzer: the comparison or gap analysis in progress

vars == <<txt, docId, out, index, nextId, last, runs, emb, pol>>

chunkVars == <<txt, docId, out>>
storeVars == <<index, nextId, last>>
handlerVars == <<runs, emb, pol>>

(***************************************************************************)
(* Bounds of the model.                                                    *)
(***************************************************************************)
MaxLen == 8        \* longest text handed to chunk()
MaxPoints == 2     \* most points written to the collection in one run
MaxRetry == 1      \* most 503 answers of the provider during one call

(***************************************************************************)
(* Program constants.  CHUNK_SIZE and OVERLAP are 2000 and 200 in the      *)
(* source; they are scaled down here so that texts that close several      *)
(* chunks can be enumerated.  OVERLAP < CHUNK_SIZE is kept.                *)
(***************************************************************************)
CHUNK_SIZE == 5
OVERLAP == 2
\* clear_collection scrolls one page of limit=10000 points; scaled down, and
\* below MaxPoints so that a collection can hold more than one page
SCROLL_LIMIT == 1

(***************************************************************************)
(* Character-level string helpers (Python str semantics).                  *)
(***************************************************************************)
Digits == <<"0", "1", "2", "3", "4", "5", "6", "7", "8", "9">>

\* str(n) for n >= 0: the decimal numeral
RECURSIVE Str(_)
Str(n) ==
    IF n < 10 THEN <<Digits[n + 1]>>
    ELSE Str(n \div 10) \o <<Digits[(n % 10) + 1]>>

\* whitespace in the sense of str.strip() / str.isspace()
IsWs(c) == c \in {" ", "\n", "\t"}

AllWs(s) == \A i \in 1..Len(s) : IsWs(s[i])

RECURSIVE LStrip(_)
LStrip(s) ==
    IF s = <<>> THEN <<>>
    ELSE IF IsWs(Head(s)) THEN LStrip(Tail(s)) ELSE s

RECURSIVE RStrip(_)
RStrip(s) ==
    IF s = <<>> THEN <<>>
    ELSE IF IsWs(s[Len(s)]) THEN RStrip(SubSeq(s, 1, Len(s) - 1)) ELSE s

\* s.strip()
Strip(s) == RStrip(LStrip(s))

\* s[-n:] for n > 0: the last n characters, the whole of s when it is shorter
LastN(s, n) == IF Len(s) <= n THEN s ELSE SubSeq(s, Len(s) - n + 1, Len(s))

\* s[:n]
FirstN(s, n) == IF Len(s) <= n THEN s ELSE SubSeq(s, 1, n)

\* s[n:]
DropN(s, n) == IF Len(s) <= n THEN <<>> ELSE SubSeq(s, n + 1, Len(s))

\* "".join(parts)
RECURSIVE Join(_)
Join(parts) ==
    IF parts = <<>> THEN <<>> ELSE Head(parts) \o Join(Tail(parts))

(***************************************************************************)
(* Clause (ingestion.py): only id and text are stored on the object.       *)
(***************************************************************************)
\* f"{doc_id}_c{idx}"
ClauseId(doc_id, idx) == doc_id \o <<"_", "c">> \o Str(idx)

Clause(doc_id, idx, text) == [id |-> ClauseId(doc_id, idx), text |-> text]

(***************************************************************************)
(* _delim = re.compile(r"(\n{2,}|\. |\? |\! )") and _delim.split(text):    *)
(* the pieces between delimiters alternate with the delimiters themselves  *)
(* (capturing group); pieces may be empty.                                 *)
(***************************************************************************)
IsSentenceEnd(c) == c \in {".", "?", "!"}

\* the end of the maximal run of "\n" that starts at position i
RECURSIVE NewlineRunEnd(_, _)
NewlineRunEnd(s, i) ==
    IF i < Len(s) /\ s[i + 1] = "\n" THEN NewlineRunEnd(s, i + 1) ELSE i

RECURSIVE SplitFrom(_, _, _, _)
SplitFrom(s, i, piece, acc) ==
    IF i > Len(s) THEN Append(acc, piece)
    ELSE IF s[i] = "\n" /\ i < Len(s) /\ s[i + 1] = "\n"
        THEN LET j == NewlineRunEnd(s, i)
             IN  SplitFrom(s, j + 1, <<>>, acc \o <<piece, SubSeq(s, i, j)>>)
    ELSE IF IsSentenceEnd(s[i]) /\ i < Len(s) /\ s[i + 1] = " "
        THEN SplitFrom(s, i + 2, <<>>, acc \o <<piece, SubSeq(s, i, i + 1)>>)
    ELSE SplitFrom(s, i + 1, Append(piece, s[i]), acc)

DelimSplit(text) == SplitFrom(text, 1, <<>>, <<>>)

(***************************************************************************)
(* chunk(text, doc_id) (ingestion.py).  The loop state is (tokens,         *)
(* current, clauses); current is the list of buffered parts.               *)
(***************************************************************************)
\* an index that counts the clause being closed
CloseIndexMutOffByOne(clauses) == Len(clauses) + 1

\* idx = len(clauses)
CloseIndex(clauses) == Len(clauses)

\* a part that is never skipped
SkipPartMutNever(part) == FALSE

\* if not part.strip(): continue
SkipPart(part) == AllWs(part)

\* an overlap seed that holds nothing
KeepMutEmpty(joined) == <<>>

\* keep = joined[-OVERLAP:]
Keep(joined) == LastN(joined, OVERLAP)

RECURSIVE ChunkLoop(_, _, _, _, _, _)
ChunkLoop(parts, i, tokens, current, clauses, doc_id) ==
    IF i > Len(parts) THEN
        \* remainder
        IF current # <<>>
        THEN Append(clauses, Clause(doc_id, Len(clauses), Strip(Join(current))))
        ELSE clauses
    ELSE IF SkipPart(parts[i]) THEN
        ChunkLoop(parts, i + 1, tokens, current, clauses, doc_id)
    ELSE
        LET cur2 == Append(current, parts[i])
            tok2 == tokens + Len(parts[i])
        IN  IF tok2 >= CHUNK_SIZE
            THEN LET idx    == CloseIndex(clauses)
                     joined == Strip(Join(cur2))
                     keep   == Keep(joined)
                 IN  ChunkLoop(parts, i + 1, Len(keep), <<keep>>,
                               Append(clauses, Clause(doc_id, idx, joined)), doc_id)
            ELSE ChunkLoop(parts, i + 1, tok2, cur2, clauses, doc_id)

chunk(text, doc_id) == ChunkLoop(DelimSplit(text), 1, 0, <<>>, <<>>, doc_id)

(***************************************************************************)
(* Inputs of the chunker.                                                  *)
(***************************************************************************)
Alphabet == {"a", ".", " ", "\n"}

TextsUpTo(n) == UNION {[1..m -> Alphabet] : m \in 0..n}

S_a == <<"a">>
S_b == <<"b">>
S_a_b == <<"a", "_", "b">>
S_b_c1 == <<"b", "_", "c", "1">>

ChunkDocIds == {S_a, S_a_b}

NoOut == [done |-> FALSE, clauses |-> <<>>]


(***************************************************************************)
(* The chunker as a specification: the inputs are drawn in Init and the    *)
(* single action applies chunk() to them.                                  *)
(***************************************************************************)
DoChunk ==
    /\ ~out.done
    /\ out' = [done |-> TRUE, clauses |-> chunk(txt, docId)]
    /\ UNCHANGED <<txt, docId, storeVars, handlerVars>>

(***************************************************************************)
(* More string helpers, used by the vector store.                          *)
(***************************************************************************)
\* sub in s
Contains(sub, s) ==
    \E i \in 0..(Len(s) - Len(sub)) : SubSeq(s, i + 1, i + Len(sub)) = sub

LowerChar(c) ==
    CASE c = "I" -> "i"
      [] c = "C" -> "c"
      [] c = "U" -> "u"
      [] OTHER   -> c

\* s.lower()
Lower(s) == [i \in 1..Len(s) |-> LowerChar(s[i])]

\* s.split(sep) for a non-empty separator: the segments between the
\* non-overlapping occurrences of sep, scanned left to right
RECURSIVE SplitSepFrom(_, _, _, _, _)
SplitSepFrom(s, sep, i, piece, acc) ==
    IF i > Len(s) THEN Append(acc, piece)
    ELSE IF i + Len(sep) - 1 <= Len(s) /\ SubSeq(s, i, i + Len(sep) - 1) = sep
        THEN SplitSepFrom(s, sep, i + Len(sep), <<>>, Append(acc, piece))
    ELSE SplitSepFrom(s, sep, i + 1, Append(piece, s[i]), acc)

SplitSep(s, sep) == SplitSepFrom(s, sep, 1, <<>>, <<>>)

DigitValue(c) == CHOOSE d \in 0..9 : Digits[d + 1] = c

IsDigit(c) == \E d \in 0..9 : Digits[d + 1] = c

RECURSIVE DigitsValue(_, _)
DigitsValue(s, acc) ==
    IF s = <<>> THEN acc ELSE DigitsValue(Tail(s), 10 * acc + DigitValue(Head(s)))

\* int(s) raises ValueError unless s is a numeral; the doc ids of the model
\* hold no sign, blank or digit-separating underscore
ValueError == -1

ParseInt(s) ==
    IF s # <<>> /\ \A i \in 1..Len(s) : IsDigit(s[i])
    THEN DigitsValue(s, 0)
    ELSE ValueError

(***************************************************************************)
(* The embedding provider (Hugging Face Inference API).  A 200 response    *)
(* carries the sentence vector of the text; the model is deterministic.    *)
(* Vectors are integer pairs of Euclidean length 5, so that the cosine of  *)
(* two of them is their dot product over 25.                               *)
(***************************************************************************)
T_icu == <<"I", "c", "u">>
T_ab == <<"a", "b">>
Q_q == <<"q">>
Q_r == <<"r">>

Texts == {T_icu, T_ab}
Queries == {Q_q, Q_r}

Embed(text) ==
    CASE text = T_icu -> <<3, 4>>
      [] text = T_ab  -> <<-3, 4>>
      [] text = Q_q   -> <<0, 5>>
      [] text = Q_r   -> <<0, -5>>
      [] OTHER        -> <<4, 3>>

\* [0.0] * self.dimension
ZeroVec == <<0, 0>>

ProviderStatus == {"200", "503", "500", "exc"}

(***************************************************************************)
(* _generate_embeddings(texts).  One request per text; the provider's      *)
(* answer to each request is an input.  The operator yields the set of     *)
(* outcomes of the call, one per pattern of answers:                       *)
(*   raised      the call raised instead of returning                      *)
(*   embeddings  the list returned                                         *)
(*   reqs        the number of requests made                               *)
(*   final       the statuses answered in the last pass over texts, in     *)
(*               the order of the texts                                    *)
(* A 503 starts the whole list again by recursion; the provider answers    *)
(* 503 at most MaxRetry times during one call.                             *)
(***************************************************************************)
RECURSIVE EmbedPass(_, _, _, _, _, _)

\* a 503 that skips the text instead of starting the list again
On503MutSkip(texts, i, embeddings, depth, reqs, final) ==
    EmbedPass(texts, i + 1, embeddings, depth + 1, reqs, final)

\* return self._generate_embeddings(texts)
On503(texts, i, embeddings, depth, reqs, final) ==
    EmbedPass(texts, 1, <<>>, depth + 1, reqs, <<>>)

EmbedPass(texts, i, embeddings, depth, reqs, final) ==
    IF i > Len(texts)
    THEN {[raised |-> FALSE, embeddings |-> embeddings, reqs |-> reqs,
           final |-> final]}
    ELSE UNION {
        LET fin2 == Append(final, st)
        IN  CASE st = "200" ->
                 EmbedPass(texts, i + 1, Append(embeddings, Embed(texts[i])),
                           depth, reqs + 1, fin2)
              [] st = "503" ->
                 IF depth < MaxRetry
                 THEN On503(texts, i, embeddings, depth, reqs + 1, fin2)
                 ELSE {}
              [] st = "500" ->
                 EmbedPass(texts, i + 1, Append(embeddings, ZeroVec), depth,
                           reqs + 1, fin2)
              [] OTHER ->
                 \* requests.exceptions.RequestException, or a body that
                 \* cannot be read: logged and raised again
                 {[raised |-> TRUE, embeddings |-> <<>>, reqs |-> reqs + 1,
                   final |-> fin2]}
        : st \in ProviderStatus }

GenerateEmbeddings(texts) == EmbedPass(texts, 1, <<>>, 0, 0, <<>>)

(***************************************************************************)
(* Points of the collection.  A point is                                   *)
(*   [id, vector, payload |-> [clause_id, text, doc_id, chunk_index], src] *)
(* where src = [doc, idx] is history only: the (doc_id, idx) the clause    *)
(* was created from.  No operation reads src.                              *)
(***************************************************************************)
Min(a, b) == IF a < b THEN a ELSE b

SeqToSet(s) == {s[i] : i \in 1..Len(s)}

\* clause.id.split('_')[0]
PayloadDocId(clause_id) == SplitSep(clause_id, <<"_">>)[1]

\* int(clause.id.split('_c')[1]) if '_c' in clause.id else 0
PayloadChunkIndex(clause_id) ==
    IF Contains(<<"_", "c">>, clause_id)
    THEN ParseInt(SplitSep(clause_id, <<"_", "c">>)[2])
    ELSE 0

Payload(clause) ==
    [clause_id   |-> clause.id,
     text        |-> clause.text,
     doc_id      |-> PayloadDocId(clause.id),
     chunk_index |-> PayloadChunkIndex(clause.id)]

\* zip(clauses, embeddings) stops at the shorter list; ids are fresh (uuid4)
BuildPoints(clauses, srcs, embeddings, nid) ==
    [i \in 1..Min(Len(clauses), Len(embeddings)) |->
        [id      |-> nid + i,
         vector  |-> embeddings[i],
         payload |-> Payload(clauses[i]),
         src     |-> srcs[i]]]

(***************************************************************************)
(* add_clauses(clauses): the set of outcomes                               *)
(*   [raised, ret, points, upserts, stored, reqs, final]                   *)
(* points is the list handed to client.upsert, upserts the number of       *)
(* upsert calls, stored whether the upsert went through.                   *)
(***************************************************************************)
add_clauses(clauses, srcs, nid) ==
    IF clauses = <<>>
    THEN {[raised |-> FALSE, ret |-> 0, points |-> <<>>, upserts |-> 0,
           stored |-> FALSE, reqs |-> 0, final |-> <<>>]}
    ELSE UNION {
        IF e.raised
        THEN {[raised |-> TRUE, ret |-> 0, points |-> <<>>, upserts |-> 0,
               stored |-> FALSE, reqs |-> e.reqs, final |-> e.final]}
        ELSE LET points == BuildPoints(clauses, srcs, e.embeddings, nid)
             IN  IF \E i \in 1..Len(points) :
                        points[i].payload.chunk_index = ValueError
                 THEN {[raised |-> TRUE, ret |-> 0, points |-> <<>>,
                        upserts |-> 0, stored |-> FALSE, reqs |-> e.reqs,
                        final |-> e.final]}
                 ELSE { \* client.upsert went through
                        [raised |-> FALSE, ret |-> Len(clauses),
                         points |-> points, upserts |-> 1, stored |-> TRUE,
                         reqs |-> e.reqs, final |-> e.final],
                        \* client.upsert raised: nothing is written
                        [raised |-> TRUE, ret |-> 0, points |-> points,
                         upserts |-> 1, stored |-> FALSE, reqs |-> e.reqs,
                         final |-> e.final] }
        : e \in GenerateEmbeddings([i \in 1..Len(clauses) |-> clauses[i].text]) }

(***************************************************************************)
(* The vector index (Qdrant, cosine distance).  Scores are in units of     *)
(* 1/250, so that the 1.1 boost of hybrid_search stays an integer.         *)
(***************************************************************************)
Dot(u, v) == u[1] * v[1] + u[2] * v[2]

Score(qvec, vec) == 10 * Dot(qvec, vec)

\* an optional string: None, or a value (which may be the empty string)
None == [some |-> FALSE, val |-> <<>>]
Some(s) == [some |-> TRUE, val |-> s]

\* Filter(must=[FieldCondition(key="doc_id", match=MatchValue(value=f))])
Matches(point, query_filter) ==
    ~query_filter.some \/ point.payload.doc_id = query_filter.val

\* client.search(query_vector, limit, query_filter): the limit best matching
\* points by score, best first; the order among equal scores is the index's
QdrantSearch(idx, qvec, limit, query_filter) ==
    LET cands == {p \in idx : Matches(p, query_filter)}
        n     == Min(limit, Cardinality(cands))
    IN  { h \in [1..n -> cands] :
            /\ \A i, j \in 1..n : i # j => h[i] # h[j]
            /\ \A i \in 1..(n - 1) :
                 Score(qvec, h[i].vector) >= Score(qvec, h[i + 1].vector)
            /\ \A p \in cands \ SeqToSet(h) :
                 n > 0 /\ Score(qvec, p.vector) <= Score(qvec, h[n].vector) }

\* a hit turned into the (clause, score, metadata) tuple search returns
Result(hit, qvec) ==
    [clause   |-> [id |-> hit.payload.clause_id, text |-> hit.payload.text],
     score    |-> Score(qvec, hit.vector),
     metadata |-> [point_id    |-> hit.id,
                   doc_id      |-> hit.payload.doc_id,
                   chunk_index |-> hit.payload.chunk_index]]

(***************************************************************************)
(* search(query, k, doc_filter): the set of outcomes                       *)
(* [result, failure, qstatus].  Any exception is caught and turned into    *)
(* []; failure tells which call raised: "provider" (the embedding of the   *)
(* query), "index" (client.search) or "none".  qstatus is the provider's   *)
(* last answer to the request for the query's embedding.                   *)
(***************************************************************************)
\* a limit one larger than asked for
SearchLimitMutOneMore(k) == k + 1

\* limit=k
SearchLimit(k) == k

\* "if doc_filter:" is Python truthiness: None and "" build no filter
QueryFilter(doc_filter) ==
    IF doc_filter.some /\ doc_filter.val # <<>> THEN doc_filter ELSE None

search(idx, query, k, doc_filter) ==
    LET es == GenerateEmbeddings(<<query>>)
        qs == {[vec |-> e.embeddings[1], st |-> e.final[1]]
                  : e \in {x \in es : ~x.raised}}
    IN  \* self._generate_embeddings([query]) raised
        {[result |-> <<>>, failure |-> "provider", qstatus |-> e.final[1]]
            : e \in {x \in es : x.raised}}
        \cup
        \* client.search raised
        {[result |-> <<>>, failure |-> "index", qstatus |-> q.st] : q \in qs}
        \cup
        UNION {
            { [result  |-> [i \in 1..Len(h) |-> Result(h[i], q.vec)],
               failure |-> "none",
               qstatus |-> q.st]
              : h \in QdrantSearch(idx, q.vec, SearchLimit(k),
                                   QueryFilter(doc_filter)) }
            : q \in qs }

(***************************************************************************)
(* hybrid_search(query, keywords, k): the set of outcomes                  *)
(* [result, pool, failure, qstatus]; pool is what search(query, k*2)       *)
(* returned.                                                               *)
(***************************************************************************)
\* score * 1.1
Boost(score) == (score * 11) \div 10

\* any(keyword.lower() in clause_text_lower for keyword in keywords)
HasKeyword(text, keywords) ==
    \E i \in 1..Len(keywords) : Contains(Lower(keywords[i]), Lower(text))

Boosted(r, keywords) ==
    IF HasKeyword(r.clause.text, keywords)
    THEN [r EXCEPT !.score = Boost(r.score)]
    ELSE r

\* list.sort(key=score, reverse=True): stable, equal scores keep their order
RECURSIVE InsertDesc(_, _)
InsertDesc(sorted, x) ==
    IF sorted = <<>> THEN <<x>>
    ELSE IF Head(sorted).score >= x.score
         THEN <<Head(sorted)>> \o InsertDesc(Tail(sorted), x)
         ELSE <<x>> \o sorted

RECURSIVE SortDescFrom(_, _, _)
SortDescFrom(s, i, sorted) ==
    IF i > Len(s) THEN sorted
    ELSE SortDescFrom(s, i + 1, InsertDesc(sorted, s[i]))

\* the pool left in the order search returned it
SortDescMutNoSort(s) == s

SortDesc(s) == SortDescFrom(s, 1, <<>>)

hybrid_search(idx, query, keywords, k) ==
    { [result  |-> IF keywords # <<>>
                   THEN FirstN(SortDesc([i \in 1..Len(o.result) |->
                                           Boosted(o.result[i], keywords)]), k)
                   ELSE FirstN(o.result, k),
       pool    |-> o.result,
       failure |-> o.failure,
       qstatus |-> o.qstatus]
      : o \in search(idx, query, k * 2, None) }

(***************************************************************************)
(* delete_by_document(doc_id) and clear_collection(): sets of outcomes     *)
(* [ret, idx] with idx the collection afterwards.                          *)
(***************************************************************************)
delete_by_document(idx, doc_id) ==
    { [ret |-> 1, idx |-> {p \in idx : p.payload.doc_id # doc_id}],
      \* client.delete raised
      [ret |-> 0, idx |-> idx] }

\* client.scroll(limit=10000): one page of at most SCROLL_LIMIT points
ScrollPages(idx) ==
    { page \in SUBSET idx :
        Cardinality(page) = Min(SCROLL_LIMIT, Cardinality(idx)) }

clear_collection(idx) ==
    { [ret |-> 1, idx |-> idx \ page] : page \in ScrollPages(idx) }
    \cup
    \* scroll or delete raised
    { [ret |-> 0, idx |-> idx] }

(***************************************************************************)
(* Inputs of the vector store.                                             *)
(***************************************************************************)
\* Clause(doc, idx, text) objects a caller may build
ClauseInputs ==
    { [doc |-> S_a,    idx |-> 0, text |-> T_icu],
      [doc |-> S_a_b,  idx |-> 1, text |-> T_ab],
      [doc |-> S_b_c1, idx |-> 0, text |-> T_icu] }

\* the clause lists handed to add_clauses: none, one or two clauses
Batches == UNION {[1..n -> ClauseInputs] : n \in {0, 1, 2}}

DocFilters == {None, Some(<<>>), Some(S_a), Some(S_b)}

DeleteDocs == {S_a, S_b, S_a_b}

KeywordLists == { <<>>, << <<"z">>, <<"I", "C", "U">> >> }

Ks == {1, 2}

\* the record of a call; every field is present for every call
NoCall ==
    [op |-> "none", cs |-> <<>>, srcs |-> <<>>, query |-> <<>>, k |-> 0,
     doc_filter |-> None, keywords |-> <<>>, doc |-> <<>>,
     result |-> <<>>, pool |-> <<>>, ret |-> 0, raised |-> FALSE,
     before |-> {}, reqs |-> 0, final |-> <<>>, upserts |-> 0,
     points |-> <<>>,
     failure |-> "none", qstatus |-> "none"]

(***************************************************************************)
(* The operations of the vector store, one action per call.                *)
(***************************************************************************)
AddClauses ==
    \E b \in Batches :
        /\ nextId + Len(b) <= MaxPoints
        /\ LET cs == [i \in 1..Len(b) |-> Clause(b[i].doc, b[i].idx, b[i].text)]
               srcs == [i \in 1..Len(b) |-> [doc |-> b[i].doc, idx |-> b[i].idx]]
           IN  \E o \in add_clauses(cs, srcs, nextId) :
                 /\ index' = IF o.stored THEN index \cup SeqToSet(o.points)
                             ELSE index
                 /\ nextId' = IF o.stored THEN nextId + Len(o.points) ELSE nextId
                 /\ last' = [NoCall EXCEPT !.op = "add_clauses", !.cs = cs,
                                !.srcs = srcs, !.ret = o.ret,
                                !.raised = o.raised, !.before = index,
                                !.reqs = o.reqs, !.final = o.final,
                                !.upserts = o.upserts,
                                !.points = o.points]
        /\ UNCHANGED <<chunkVars, handlerVars>>

Search ==
    \E q \in Queries, k \in Ks, f \in DocFilters :
        \E o \in search(index, q, k, f) :
            /\ last' = [NoCall EXCEPT !.op = "search", !.query = q, !.k = k,
                           !.doc_filter = f, !.result = o.result,
                           !.before = index, !.failure = o.failure,
                           !.qstatus = o.qstatus]
            /\ UNCHANGED <<index, nextId, chunkVars, handlerVars>>

HybridSearch ==
    \E q \in Queries, kw \in KeywordLists, k \in Ks :
        \E o \in hybrid_search(index, q, kw, k) :
            /\ last' = [NoCall EXCEPT !.op = "hybrid_search", !.query = q,
                           !.k = k, !.keywords = kw, !.result = o.result,
                           !.pool = o.pool, !.before = index,
                           !.failure = o.failure, !.qstatus = o.qstatus]
            /\ UNCHANGED <<index, nextId, chunkVars, handlerVars>>

DeleteByDocument ==
    \E d \in DeleteDocs :
        \E o \in delete_by_document(index, d) :
            /\ index' = o.idx
            /\ last' = [NoCall EXCEPT !.op = "delete_by_document", !.doc = d,
                           !.ret = o.ret, !.before = index]
            /\ UNCHANGED <<nextId, chunkVars, handlerVars>>

ClearCollection ==
    \E o \in clear_collection(index) :
        /\ index' = o.idx
        /\ last' = [NoCall EXCEPT !.op = "clear_collection", !.ret = o.ret,
                       !.before = index]
        /\ UNCHANGED <<nextId, chunkVars, handlerVars>>

(***************************************************************************)
(* main.run, the /api/v1/hackrx/run handler.  Every request works on the   *)
(* one collection "insurance_policies"; requests served at the same time   *)
(* (one function instance per request behind the Mangum adapter) take      *)
(* turns call by call on it.  A request is, in order: the ingestion of its *)
(* document (download, extract_text, chunk), clear_collection, add_clauses *)
(* unless there is no clause, one search per question, the answer.         *)
(* A request is the record                                                 *)
(*   pc       "idle", "clear", "add", "search", "done" or "raised"         *)
(*   cs       all_clauses                                                  *)
(*   cleared  what its clear_collection returned ("none" before the call)  *)
(*   added    "returned" or "skipped" once past add_clauses                *)
(*   asked    the number of questions searched so far                      *)
(*   result   relevant_clauses of its last search                          *)
(*   visible  history: the clause ids the collection held at that search   *)
(***************************************************************************)
RunIds == {1, 2}

\* doc_id = uuid.uuid4().hex[:8]: hexadecimal, and fresh for every document
RunDoc(r) == IF r = 1 THEN S_a ELSE S_b

\* the text extract_text gives for the request's document
RunTexts == {<<>>, T_icu, T_ab}

\* most questions of one request
MaxQuestions == 1

\* vector_store.search(question, k=5); scaled down to the size of the
\* collections built here
RUN_K == 2

NoRun ==
    [pc |-> "idle", cs |-> <<>>, cleared |-> "none", added |-> "none",
     asked |-> 0, result |-> <<>>, visible |-> {}]

NoRuns == [r \in RunIds |-> NoRun]

\* the call in progress of _generate_embeddings: none
NoEmb ==
    [pc |-> "idle", caller |-> "none", cs |-> <<>>, srcs |-> <<>>, k |-> 0,
     texts |-> <<>>, i |-> 0, embeddings |-> <<>>, result |-> <<>>]

\* lines 47-53: chunk(raw, doc_id) for the document of the request
RunIngest ==
    \E r \in RunIds, raw \in RunTexts :
        /\ runs[r].pc = "idle"
        /\ runs' = [runs EXCEPT ![r] = [NoRun EXCEPT !.pc = "clear",
                                           !.cs = chunk(raw, RunDoc(r))]]
        /\ UNCHANGED <<chunkVars, storeVars, emb, pol>>

\* line 60: vector_store.clear_collection(), its return value dropped
RunClear ==
    \E r \in RunIds :
        /\ runs[r].pc = "clear"
        /\ \E o \in clear_collection(index) :
             /\ index' = o.idx
             /\ runs' = [runs EXCEPT ![r].pc = "add",
                            ![r].cleared = IF o.ret = 1 THEN "True" ELSE "False"]
        /\ UNCHANGED <<chunkVars, nextId, last, emb, pol>>

\* lines 61-63: if all_clauses: vector_store.add_clauses(all_clauses); an
\* exception leaves the handler
RunAdd ==
    \E r \in RunIds :
        /\ runs[r].pc = "add"
        /\ LET cs   == runs[r].cs
               srcs == [i \in 1..Len(cs) |-> [doc |-> RunDoc(r), idx |-> i - 1]]
           IN  IF cs = <<>>
               THEN /\ runs' = [runs EXCEPT ![r].pc = "search",
                                   ![r].added = "skipped"]
                    /\ UNCHANGED <<index, nextId>>
               ELSE /\ nextId + Len(cs) <= MaxPoints
                    /\ \E o \in add_clauses(cs, srcs, nextId) :
                         IF o.raised
                         THEN /\ runs' = [runs EXCEPT ![r].pc = "raised"]
                              /\ UNCHANGED <<index, nextId>>
                         ELSE /\ index' = index \cup SeqToSet(o.points)
                              /\ nextId' = nextId + Len(o.points)
                              /\ runs' = [runs EXCEPT ![r].pc = "search",
                                             ![r].added = "returned"]
        /\ UNCHANGED <<chunkVars, last, emb, pol>>

\* lines 68-70: relevant_clauses = vector_store.search(question, k=5)
RunSearch ==
    \E r \in RunIds, q \in Queries :
        /\ runs[r].pc = "search"
        /\ runs[r].asked < MaxQuestions
        /\ \E o \in search(index, q, RUN_K, None) :
             runs' = [runs EXCEPT ![r].asked = @ + 1,
                         ![r].result = o.result,
                         ![r].visible = {p.payload.clause_id : p \in index}]
        /\ UNCHANGED <<chunkVars, storeVars, emb, pol>>

\* line 91: return {"answers": answers}, once every question is answered
RunReturn ==
    \E r \in RunIds :
        /\ runs[r].pc = "search"
        /\ runs' = [runs EXCEPT ![r].pc = "done"]
        /\ UNCHANGED <<chunkVars, storeVars, emb, pol>>

(***************************************************************************)
(* add_clauses and search, request by request.  The call of                *)
(* _generate_embeddings they make is followed one provider request at a    *)
(* time; emb is the record                                                 *)
(*   pc          "idle", "loop" (in the for loop), "sleep" (in             *)
(*               time.sleep(10) after a 503), "returned" or "raised"       *)
(*               (the caller, add_clauses or search, is over)              *)
(*   caller      "add_clauses" or "search"                                 *)
(*   cs, srcs    the clauses of add_clauses; k the limit of search         *)
(*   texts, i    the list being embedded and the position of the loop      *)
(*   embeddings  the list built so far                                     *)
(*   result      what search returned                                      *)
(* The recursive call made on a 503 starts the loop again on the same      *)
(* list with a new empty embeddings list; its return value is returned     *)
(* unchanged, so the frames below it hold nothing that is used again.      *)
(***************************************************************************)
\* add_clauses(clauses) up to its call of _generate_embeddings(texts)
EmbCallAdd ==
    \E b \in Batches :
        /\ emb.pc \notin {"loop", "sleep"}
        /\ b # <<>>
        /\ nextId + Len(b) <= MaxPoints
        /\ emb' = [NoEmb EXCEPT !.pc = "loop", !.caller = "add_clauses",
                      !.cs = [i \in 1..Len(b) |->
                                 Clause(b[i].doc, b[i].idx, b[i].text)],
                      !.srcs = [i \in 1..Len(b) |->
                                   [doc |-> b[i].doc, idx |-> b[i].idx]],
                      !.texts = [i \in 1..Len(b) |-> b[i].text], !.i = 1]
        /\ UNCHANGED <<chunkVars, storeVars, runs, pol>>

\* search(query, k) up to its call of _generate_embeddings([query])
EmbCallSearch ==
    \E q \in Queries, k \in Ks :
        /\ emb.pc \notin {"loop", "sleep"}
        /\ emb' = [NoEmb EXCEPT !.pc = "loop", !.caller = "search", !.k = k,
                      !.texts = <<q>>, !.i = 1]
        /\ UNCHANGED <<chunkVars, storeVars, runs, pol>>

\* one turn of "for text in texts": the request and the branch on its answer
EmbRequest ==
    /\ emb.pc = "loop"
    /\ emb.i <= Len(emb.texts)
    /\ \E st \in ProviderStatus :
         emb' = CASE st = "200" ->
                     [emb EXCEPT !.i = @ + 1,
                         !.embeddings = Append(@, Embed(emb.texts[emb.i]))]
                  [] st = "503" ->
                     [emb EXCEPT !.pc = "sleep"]
                  [] st = "500" ->
                     [emb EXCEPT !.i = @ + 1,
                         !.embeddings = Append(@, ZeroVec)]
                  [] OTHER ->
                     \* raised again by _generate_embeddings; add_clauses
                     \* raises it too, search returns []
                     [emb EXCEPT !.pc = IF emb.caller = "search"
                                        THEN "returned" ELSE "raised"]
    /\ UNCHANGED <<chunkVars, storeVars, runs, pol>>

\* after time.sleep(10): return self._generate_embeddings(texts)
EmbRetry ==
    /\ emb.pc = "sleep"
    /\ emb' = [emb EXCEPT !.pc = "loop", !.i = 1, !.embeddings = <<>>]
    /\ UNCHANGED <<chunkVars, storeVars, runs, pol>>

\* the loop is over: _generate_embeddings returns and the caller goes on,
\* add_clauses to its upsert, search to client.search
EmbFinish ==
    /\ emb.pc = "loop"
    /\ emb.i > Len(emb.texts)
    /\ IF emb.caller = "add_clauses"
       THEN LET points == BuildPoints(emb.cs, emb.srcs, emb.embeddings, nextId)
            IN  \/ /\ index' = index \cup SeqToSet(points)
                   /\ nextId' = nextId + Len(points)
                   /\ emb' = [emb EXCEPT !.pc = "returned"]
                \/ \* client.upsert raised
                   /\ emb' = [emb EXCEPT !.pc = "raised"]
                   /\ UNCHANGED <<index, nextId>>
       ELSE /\ \/ \E h \in QdrantSearch(index, emb.embeddings[1],
                                        SearchLimit(emb.k), None) :
                    emb' = [emb EXCEPT !.pc = "returned",
                               !.result = [i \in 1..Len(h) |->
                                              Result(h[i], emb.embeddings[1])]]
               \/ \* client.search raised
                  emb' = [emb EXCEPT !.pc = "returned"]
            /\ UNCHANGED <<index, nextId>>
    /\ UNCHANGED <<chunkVars, last, runs, pol>>

(***************************************************************************)
(* PolicyAnalyzer.compare_policies / find_coverage_gaps                    *)
(* (policy_analyzer.py) and the two endpoints of main.py that call them.   *)
(* Both methods group all_clauses by clause.id.split('_')[0], answer with  *)
(* an error when there are fewer than two groups, and otherwise, for every *)
(* group in turn (once per coverage area for the gap analysis): add the    *)
(* group's clauses, then search.  pol is the record                        *)
(*   pc       "idle", "add", "search", "done" or "raised"                  *)
(*   kind     "compare" or "gaps";  via  "endpoint" or "direct"            *)
(*   docs     per document, in order, the clauses chunk() gave for it      *)
(*   query    the question, or the coverage area searched for              *)
(*   groups   the dict policies, as the list of its items in insertion     *)
(*            order: [id, clauses]                                         *)
(*   error    whether the "Need at least 2 policies" result was returned   *)
(*   total    total_policies of the compare endpoint                       *)
(*   area, pos  the position of the two loops                              *)
(*   found    per search made, in order: [id, result], the policy being    *)
(*            processed and what the search returned                       *)
(***************************************************************************)
S_policy == <<"p", "o", "l", "i", "c", "y">>

\* doc_id = f"policy_{i+1}_{uuid.uuid4().hex[:8]}", i + 1 = n
PolicyDocId(n) == S_policy \o <<"_">> \o Str(n) \o <<"_">> \o RunDoc(n)

\* policy_id = clause.id.split('_')[0]
PolicyId(clause_id) == SplitSep(clause_id, <<"_">>)[1]

\* policies[policy_id].append(clause), in the order of all_clauses
RECURSIVE GroupFrom(_, _, _)
GroupFrom(all_clauses, i, policies) ==
    IF i > Len(all_clauses) THEN policies
    ELSE LET clause == all_clauses[i]
             pid    == PolicyId(clause.id)
             at     == {g \in 1..Len(policies) : policies[g].id = pid}
         IN  IF at = {}
             THEN GroupFrom(all_clauses, i + 1,
                            Append(policies, [id |-> pid, clauses |-> <<clause>>]))
             ELSE LET g == CHOOSE x \in at : TRUE
                  IN  GroupFrom(all_clauses, i + 1,
                                [policies EXCEPT ![g].clauses = Append(@, clause)])

GroupByPolicy(all_clauses) == GroupFrom(all_clauses, 1, <<>>)

\* len(set(clause.id.split('_')[0] for clause in all_clauses))
TotalPolicies(all_clauses) ==
    Cardinality({PolicyId(all_clauses[i].id) : i \in 1..Len(all_clauses)})

\* search(question, k=3) in compare_policies, search(area, k=2) in
\* find_coverage_gaps
COMPARE_K == 3
GAPS_K == 2

\* len(coverage_areas), 12 in the source; scaled down
COVERAGE_AREAS == 1

PolicyKinds == {"compare", "gaps"}

NoPol ==
    [pc |-> "idle", kind |-> "none", via |-> "none", docs |-> <<>>,
     query |-> <<>>, groups |-> <<>>, error |-> FALSE, total |-> 0,
     area |-> 0, pos |-> 0, found |-> <<>>]

\* all_clauses.extend(clauses), document by document
AllClauses(docs) ==
    IF Len(docs) = 0 THEN <<>>
    ELSE IF Len(docs) = 1 THEN docs[1]
    ELSE docs[1] \o docs[2]

\* the grouping and the "fewer than 2" test that open both methods
PolEnter(kind, via, docs, q) ==
    LET policies == GroupByPolicy(AllClauses(docs))
        few      == Len(policies) < 2
    IN  [NoPol EXCEPT !.pc = IF few THEN "done" ELSE "add",
                      !.kind = kind, !.via = via, !.docs = docs, !.query = q,
                      !.groups = policies, !.error = few,
                      !.total = TotalPolicies(AllClauses(docs)),
                      !.area = 1, !.pos = 1]

\* main.compare_policies / analyze_coverage_gaps with two document URLs:
\* the documents are chunked under "policy_{i+1}_{hex}" and handed on
PolEndpoint ==
    \E kind \in PolicyKinds, raw1 \in RunTexts, raw2 \in RunTexts, q \in Queries :
        /\ pol.pc = "idle"
        /\ pol' = PolEnter(kind, "endpoint",
                           <<chunk(raw1, PolicyDocId(1)), chunk(raw2, PolicyDocId(2))>>, q)
        /\ UNCHANGED <<chunkVars, storeVars, runs, emb>>

\* the methods called with the clauses of two documents chunked under a
\* plain hexadecimal doc_id, as main.run makes them
PolDirect ==
    \E kind \in PolicyKinds, raw1 \in RunTexts, raw2 \in RunTexts, q \in Queries :
        /\ pol.pc = "idle"
        /\ pol' = PolEnter(kind, "direct",
                           <<chunk(raw1, RunDoc(1)), chunk(raw2, RunDoc(2))>>, q)
        /\ UNCHANGED <<chunkVars, storeVars, runs, emb>>

\* vector_store.add_clauses(policy_clauses); an exception leaves the method
PolAdd ==
    /\ pol.pc = "add"
    /\ LET cs   == pol.groups[pol.pos].clauses
           srcs == [i \in 1..Len(cs) |->
                       [doc |-> pol.groups[pol.pos].id, idx |-> i - 1]]
       IN  /\ nextId + Len(cs) <= MaxPoints
           /\ \E o \in add_clauses(cs, srcs, nextId) :
                IF o.raised
                THEN /\ pol' = [pol EXCEPT !.pc = "raised"]
                     /\ UNCHANGED <<index, nextId>>
                ELSE /\ index' = index \cup SeqToSet(o.points)
                     /\ nextId' = nextId + Len(o.points)
                     /\ pol' = [pol EXCEPT !.pc = "search"]
    /\ UNCHANGED <<chunkVars, last, runs, emb>>

\* relevant_clauses = vector_store.search(question, k=3), or
\* relevant = vector_store.search(area, k=2); then the next policy, the
\* next area, or the result
PolSearch ==
    /\ pol.pc = "search"
    /\ \E o \in search(index, pol.query,
                       IF pol.kind = "compare" THEN COMPARE_K ELSE GAPS_K, None) :
         LET lastPolicy == pol.pos = Len(pol.groups)
             lastArea   == pol.kind = "compare" \/ pol.area = COVERAGE_AREAS
         IN  pol' = [pol EXCEPT
                        !.found = Append(@, [id |-> pol.groups[pol.pos].id,
                                             result |-> o.result]),
                        !.pos = IF lastPolicy THEN 1 ELSE @ + 1,
                        !.area = IF lastPolicy /\ ~lastArea THEN @ + 1 ELSE @,
                        !.pc = IF lastPolicy /\ lastArea THEN "done" ELSE "add"]
    /\ UNCHANGED <<chunkVars, storeVars, runs, emb>>

(***************************************************************************)
(* Spec: the writes of the vector store (add_clauses, delete_by_document,  *)
(* clear_collection) and search, from an empty collection.                 *)
(* SpecHybrid: the same writes and hybrid_search.  The two reads leave the *)
(* collection as it is, so each is checked over every collection the       *)
(* writes can build.                                                       *)
(* SpecChunk: chunk() applied to every text of at most MaxLen characters.  *)
(***************************************************************************)
Init ==
    /\ txt = <<>>
    /\ docId = S_a
    /\ out = NoOut
    /\ index = {}
    /\ nextId = 0
    /\ last = NoCall
    /\ runs = NoRuns
    /\ emb = NoEmb
    /\ pol = NoPol

Next ==
    \/ AddClauses
    \/ DeleteByDocument
    \/ ClearCollection
    \/ Search

Spec == Init /\ [][Next]_vars

NextHybrid ==
    \/ AddClauses
    \/ DeleteByDocument
    \/ ClearCollection
    \/ HybridSearch

SpecHybrid == Init /\ [][NextHybrid]_vars

InitChunk ==
    /\ txt \in TextsUpTo(MaxLen)
    /\ docId \in ChunkDocIds
    /\ out = NoOut
    /\ index = {}
    /\ nextId = 0
    /\ last = NoCall
    /\ runs = NoRuns
    /\ emb = NoEmb
    /\ pol = NoPol

NextChunk == DoChunk

SpecChunk == InitChunk /\ [][NextChunk]_vars

\* SpecRun: the run requests of RunIds, served at the same time on one
\* collection that starts empty.
NextRun ==
    \/ RunIngest
    \/ RunClear
    \/ RunAdd
    \/ RunSearch
    \/ RunReturn

SpecRun == Init /\ [][NextRun]_vars

\* SpecRetry: calls of add_clauses and search followed request by request.
\* The thread that serves a call keeps running: a step of the call that can
\* be taken is taken.
NextRetry ==
    \/ EmbCallAdd
    \/ EmbCallSearch
    \/ EmbRequest
    \/ EmbRetry
    \/ EmbFinish

SpecRetry ==
    Init /\ [][NextRetry]_vars /\ WF_vars(EmbRequest \/ EmbRetry \/ EmbFinish)

\* SpecPolicy: one comparison or gap analysis, on a collection that starts
\* empty.
NextPolicy ==
    \/ PolEndpoint
    \/ PolDirect
    \/ PolAdd
    \/ PolSearch

SpecPolicy == Init /\ [][NextPolicy]_vars

(***************************************************************************)
(* Properties of the chunker (SpecChunk).                                  *)
(***************************************************************************)
\* the characters of s that are not whitespace, in order
RECURSIVE NonWs(_)
NonWs(s) ==
    IF s = <<>> THEN <<>>
    ELSE IF IsWs(Head(s)) THEN NonWs(Tail(s))
         ELSE <<Head(s)>> \o NonWs(Tail(s))

\* the clause texts joined in order, every clause but the first without its
\* first OVERLAP characters
RECURSIVE JoinWithoutOverlap(_, _)
JoinWithoutOverlap(clauses, i) ==
    IF i > Len(clauses) THEN <<>>
    ELSE (IF i = 1 THEN clauses[i].text ELSE DropN(clauses[i].text, OVERLAP))
         \o JoinWithoutOverlap(clauses, i + 1)

\* C1: for a text with a non-whitespace character, the clause at position i
\* (counted from 0) of chunk(T, D) has the id "{D}_c{i}": the indices are
\* 0, 1, ..., n-1 in order.
C1_IdsCountFromZero ==
    (out.done /\ ~AllWs(txt)) =>
        \A i \in 1..Len(out.clauses) :
            out.clauses[i].id = docId \o <<"_", "c">> \o Str(i - 1)

\* C1 witness: a text that closed two chunks and left a remainder, under a
\* doc_id that itself holds a "_"
C1_Witness ==
    /\ out.done
    /\ docId = S_a_b
    /\ Len(out.clauses) = 3
    /\ out.clauses[3].id = <<"a", "_", "b", "_", "c", "2">>

\* C3: joining the clause texts in order, each clause after the first
\* without its first OVERLAP characters, gives the text back up to
\* whitespace: the same non-whitespace characters in the same order.
C3_ConcatenationRestoresText ==
    out.done => NonWs(JoinWithoutOverlap(out.clauses, 1)) = NonWs(txt)

\* C4: the first OVERLAP characters of every clause after the first are the
\* last OVERLAP characters of the clause before it, OVERLAP characters
\* exactly.
C4_FixedOverlap ==
    out.done =>
        \A i \in 1..(Len(out.clauses) - 1) :
            /\ Len(LastN(out.clauses[i].text, OVERLAP)) = OVERLAP
            /\ FirstN(out.clauses[i + 1].text, OVERLAP)
                   = LastN(out.clauses[i].text, OVERLAP)

\* C18: a text shorter than CHUNK_SIZE that holds a non-whitespace character
\* gives exactly one clause, whose text is the text with its leading and
\* trailing whitespace removed and everything in between unchanged.
C18_ShortTextIsOneTrimmedClause ==
    (out.done /\ Len(txt) < CHUNK_SIZE /\ ~AllWs(txt)) =>
        /\ Len(out.clauses) = 1
        /\ out.clauses[1].text = Strip(txt)

\* C19: chunk returns no clause exactly when the text is empty or holds
\* only whitespace; a text with a non-whitespace character gives at least
\* one clause.
C19_NoClauseIffBlank ==
    out.done => ((out.clauses = <<>>) <=> AllWs(txt))

\* C19 witness: a text of whitespace only, split at a paragraph break, came
\* back as no clause
C19_Witness ==
    /\ out.done
    /\ txt = <<" ", "\n", "\n", " ">>
    /\ out.clauses = <<>>

\* C20: no returned clause has an empty or whitespace-only text, the
\* clause that starts from the overlap seed and the remainder included.
C20_NoBlankClause ==
    out.done =>
        \A i \in 1..Len(out.clauses) : ~AllWs(out.clauses[i].text)

\* C20 witness: a chunk was closed by the last part of the text, so the
\* remainder clause is the overlap seed alone
C20_Witness ==
    /\ out.done
    /\ Len(txt) = CHUNK_SIZE /\ \A i \in 1..Len(txt) : txt[i] = "a"
    /\ Len(out.clauses) = 2
    /\ out.clauses[2].text = LastN(txt, OVERLAP)

\* C21: a text that is a single token (the delimiter pattern matches nowhere
\* in it) longer than CHUNK_SIZE gives exactly one clause, and that clause
\* holds the whole token.
C21_LongTokenIsOneClause ==
    ( /\ out.done
      /\ Len(DelimSplit(txt)) = 1
      /\ Len(txt) > CHUNK_SIZE
      /\ ~AllWs(txt) )
    =>
    ( /\ Len(out.clauses) = 1
      /\ Contains(Strip(txt), out.clauses[1].text) )

(***************************************************************************)
(* Properties of the vector store (Spec, SpecHybrid).                      *)
(***************************************************************************)
\* the point of the collection with the given id
PointOf(idx, id) == CHOOSE p \in idx : p.id = id

NonIncreasing(rs) ==
    \A i, j \in 1..Len(rs) : i < j => rs[i].score >= rs[j].score

\* C2: the payload written for a clause built as Clause(D, i, text) has
\* clause_id = the clause's id, doc_id = D and chunk_index = i.
C2_PayloadParsesBack ==
    (last.op = "add_clauses" /\ ~last.raised) =>
        \A i \in 1..Len(last.points) :
            /\ last.points[i].payload.clause_id = last.cs[i].id
            /\ last.points[i].payload.doc_id = last.srcs[i].doc
            /\ last.points[i].payload.chunk_index = last.srcs[i].idx

\* C5: search(query, k) returns at most k results, in order of
\* non-increasing score, and nothing from an empty collection.
C5_AtMostKBestFirst ==
    last.op = "search" =>
        /\ Len(last.result) <= last.k
        /\ NonIncreasing(last.result)
        /\ (index = {} => last.result = <<>>)

\* C5 witness: a search with k = 1 over two points of different score
\* returned the better one alone
C5_Witness ==
    /\ last.op = "search"
    /\ last.k = 1
    /\ Cardinality(index) = 2
    /\ Len(last.result) = 1
    /\ \E p \in index :
         /\ p.id # last.result[1].metadata.point_id
         /\ Score(Embed(last.query), p.vector) < last.result[1].score
         /\ Score(Embed(last.query),
                  PointOf(index, last.result[1].metadata.point_id).vector)
              = last.result[1].score

\* C6: a search given a doc_filter F returns only points whose payload
\* doc_id is F, and so no point of a document other than F.
C6_FilterIsExact ==
    (last.op = "search" /\ last.doc_filter.some) =>
        \A i \in 1..Len(last.result) :
            /\ last.result[i].metadata.doc_id = last.doc_filter.val
            /\ PointOf(index, last.result[i].metadata.point_id).src.doc
                   = last.doc_filter.val

\* the documents the points of a collection were created from
SrcDocs(idx) == {p.src.doc : p \in idx}

\* C7: after delete_by_document(D) on a collection that held several
\* documents, every search filtered by D is empty, and every point of
\* another document is still in the collection and still found by a search.
C7_DeleteOnlyThatDocument ==
    (/\ last.op = "delete_by_document"
     /\ last.ret = 1
     /\ Cardinality(SrcDocs(last.before)) >= 2) =>
        /\ \A q \in Queries, k \in Ks :
             \A o \in search(index, q, k, Some(last.doc)) : o.result = <<>>
        /\ \A p \in last.before :
             p.src.doc # last.doc =>
                /\ p \in index
                /\ \E q \in Queries, k \in Ks :
                     \E o \in search(index, q, k, None) :
                        \E i \in 1..Len(o.result) :
                           o.result[i].metadata.point_id = p.id

\* whether a pool entry is among the results, and at which position
InResult(rs, entry) ==
    \E j \in 1..Len(rs) : rs[j].metadata.point_id = entry.metadata.point_id

PosInResult(rs, entry) ==
    CHOOSE j \in 1..Len(rs) : rs[j].metadata.point_id = entry.metadata.point_id

\* C8: of two pool entries with the same raw score, A holding a keyword and
\* B holding none, hybrid_search never returns B without A and places A
\* before B.
C8_KeywordRanksFirst ==
    last.op = "hybrid_search" =>
        \A a, b \in 1..Len(last.pool) :
            (/\ HasKeyword(last.pool[a].clause.text, last.keywords)
             /\ ~HasKeyword(last.pool[b].clause.text, last.keywords)
             /\ last.pool[a].score = last.pool[b].score
             /\ InResult(last.result, last.pool[b])) =>
                /\ InResult(last.result, last.pool[a])
                /\ PosInResult(last.result, last.pool[a])
                     < PosInResult(last.result, last.pool[b])

\* the score hybrid_search ranks a pool entry by: 1.1 times its score when
\* its text holds a keyword, its score otherwise
EffectiveScore(entry, keywords) ==
    IF \E i \in 1..Len(keywords) :
          Contains(Lower(keywords[i]), Lower(entry.clause.text))
    THEN (11 * entry.score) \div 10
    ELSE entry.score

\* C9: the result of hybrid_search(query, keywords, k) is the k best entries
\* of the pool search(query, 2k) by effective score, best first: it has
\* min(k, size of the pool) entries, each a pool entry carrying its
\* effective score, in non-increasing order, and no entry left out has a
\* higher effective score than one returned.
C9_TopKByEffectiveScore ==
    last.op = "hybrid_search" =>
        LET pool == last.pool
            res  == last.result
        IN  /\ Len(pool) <= 2 * last.k
            /\ Len(res) = Min(last.k, Len(pool))
            /\ NonIncreasing(res)
            /\ \E f \in [1..Len(res) -> 1..Len(pool)] :
                 /\ \A i, j \in 1..Len(res) : i # j => f[i] # f[j]
                 /\ \A i \in 1..Len(res) :
                      /\ res[i].clause = pool[f[i]].clause
                      /\ res[i].metadata = pool[f[i]].metadata
                      /\ res[i].score = EffectiveScore(pool[f[i]], last.keywords)
                 /\ \A j \in 1..Len(pool) :
                      (\A i \in 1..Len(res) : f[i] # j) =>
                         /\ Len(res) > 0
                         /\ EffectiveScore(pool[j], last.keywords)
                              <= res[Len(res)].score

\* C9 witness: the boost moved the second entry of the pool to the front
C9_Witness ==
    /\ last.op = "hybrid_search"
    /\ last.keywords # <<>>
    /\ Len(last.pool) = 2
    /\ Len(last.result) = 2
    /\ last.result[1].metadata.point_id = last.pool[2].metadata.point_id
    /\ last.result[1].score > last.pool[2].score
    /\ last.result[1].score > last.result[2].score

\* C10: when add_clauses(cs) returns it returns len(cs); the collection has
\* gained exactly len(cs) points, written by one upsert call, with distinct
\* new ids, the i-th carrying cs[i].id, cs[i].text and the vector the last
\* pass over the texts obtained for cs[i].text (the provider's vector on a
\* 200, the zero vector on another status); for an empty cs it returns 0
\* and calls neither the provider nor the index.
C10_AddWritesEveryClause ==
    (last.op = "add_clauses" /\ ~last.raised) =>
        LET n == Len(last.cs)
        IN  /\ last.ret = n
            /\ Cardinality(index) = Cardinality(last.before) + n
            /\ n = 0 => (last.reqs = 0 /\ last.upserts = 0 /\ index = last.before)
            /\ n > 0 =>
                 /\ last.upserts = 1
                 /\ Len(last.points) = n
                 /\ Len(last.final) = n
                 /\ index = last.before \cup SeqToSet(last.points)
                 /\ \A i, j \in 1..n :
                      i # j => last.points[i].id # last.points[j].id
                 /\ \A i \in 1..n :
                      /\ \A p \in last.before : p.id # last.points[i].id
                      /\ last.points[i].payload.clause_id = last.cs[i].id
                      /\ last.points[i].payload.text = last.cs[i].text
                      /\ last.final[i] \in {"200", "500"}
                      /\ last.points[i].vector =
                           IF last.final[i] = "200"
                           THEN Embed(last.cs[i].text)
                           ELSE ZeroVec

\* C10 witness: two clauses of different text were written after the
\* provider answered 503 once and another status than 200 for one text
C10_Witness ==
    /\ last.op = "add_clauses"
    /\ ~last.raised
    /\ Len(last.cs) = 2
    /\ last.cs[1].text # last.cs[2].text
    /\ last.reqs > 2
    /\ last.final = <<"500", "200">>
    /\ Cardinality(index) = 2


\* C11: when the embedding of one text of a batch fails (a status other
\* than 200, or a network error) and the upsert itself does not fail,
\* add_clauses returns, every clause of the batch is indexed, the failed
\* text with the zero vector and every other text with its own embedding.
C11_FailedEmbeddingIsIsolated ==
    ( /\ last.op = "add_clauses"
      /\ last.cs # <<>>
      /\ \E i \in 1..Len(last.final) : last.final[i] # "200"
      /\ ~(last.raised /\ last.upserts = 1) )
    =>
    ( /\ ~last.raised
      /\ last.ret = Len(last.cs)
      /\ \A i \in 1..Len(last.cs) :
            \E p \in index \ last.before :
                /\ p.payload.clause_id = last.cs[i].id
                /\ p.vector = IF last.final[i] = "200"
                              THEN Embed(last.cs[i].text)
                              ELSE ZeroVec )

\* C13: search and hybrid_search return a list and never raise; when the
\* request for the query's embedding fails (a status other than 200, or a
\* network error) or the index call fails, the list is empty; the
\* collection is left as it was.
C13_FailedSearchIsEmpty ==
    last.op \in {"search", "hybrid_search"} =>
        /\ index = last.before
        /\ (last.failure # "none" \/ last.qstatus # "200") => last.result = <<>>

\* C14: after clear_collection has returned True the collection holds no
\* point, however many it held before.
C14_ClearLeavesNothing ==
    (last.op = "clear_collection" /\ last.ret = 1) => index = {}

\* C15: no two points of the collection carry the same clause_id, in any
\* state reached by add_clauses, clear_collection and delete_by_document.
C15_ClauseIdsUnique ==
    \A p, q \in index :
        p.payload.clause_id = q.payload.clause_id => p = q

(***************************************************************************)
(* Properties of the run handler (SpecRun).                                *)
(***************************************************************************)
\* C16: a request searches only after its own clear_collection and
\* add_clauses have returned, and at each of its searches every clause it
\* indexed is in the collection, whatever the other requests do meanwhile.
C16_ReadYourOwnWrites ==
    \A r \in RunIds :
        runs[r].asked > 0 =>
            /\ runs[r].cleared # "none"
            /\ runs[r].added # "none"
            /\ \A i \in 1..Len(runs[r].cs) : runs[r].cs[i].id \in runs[r].visible

\* C17: every clause a request's search returned is one of the clauses
\* chunked from that request's own document.
C17_NoClauseOfAnotherRun ==
    \A r \in RunIds :
        \A i \in 1..Len(runs[r].result) :
            \E j \in 1..Len(runs[r].cs) :
                runs[r].result[i].clause.id = runs[r].cs[j].id

(***************************************************************************)
(* Properties of a call followed request by request (SpecRetry).           *)
(***************************************************************************)
\* C12: every call of add_clauses and of search that has begun to embed
\* its texts eventually returns or raises, whatever the provider answers,
\* 503 to every request included.
C12_EveryCallEnds ==
    (emb.pc = "loop") ~> (emb.pc \in {"returned", "raised"})

(***************************************************************************)
(* Properties of the policy analysis (SpecPolicy).                         *)
(***************************************************************************)
\* the number of documents of the request that produced a clause
Producing(docs) == Cardinality({n \in 1..Len(docs) : docs[n] # <<>>})

\* C22: for a compare-policies or coverage-gaps request, the grouping has
\* exactly one group per document that produced a clause, total_policies is
\* the number of such documents, and the "need at least 2 policies" result
\* is returned only when fewer than two documents produced a clause.
C22_OneGroupPerDocument ==
    (pol.via = "endpoint" /\ pol.pc # "idle") =>
        /\ Len(pol.groups) = Producing(pol.docs)
        /\ pol.total = Producing(pol.docs)
        /\ pol.error => Producing(pol.docs) < 2

\* C23: every clause returned by the search made for a policy, right after
\* that policy's clauses were added, is one of that policy's clauses.
C23_SearchStaysInPolicy ==
    \A n \in 1..Len(pol.found) :
        \A i \in 1..Len(pol.found[n].result) :
            \E g \in 1..Len(pol.groups) :
                /\ pol.groups[g].id = pol.found[n].id
                /\ \E j \in 1..Len(pol.groups[g].clauses) :
                      pol.groups[g].clauses[j].id = pol.found[n].result[i].clause.id

=============================================================================
